---- MODULE Spec2Model ----
(***************************************************************************)
(* A model of eq-questionnaire-validator's schema index                    *)
(* (app/validation/questionnaire_schema.py, class QuestionnaireSchema) and *)
(* of its per-answer validator (app/validation/answer_validator.py, class  *)
(* AnswerValidator).                                                       *)
(*                                                                         *)
(* Python strings are sequences of one-character strings, so that find,    *)
(* slicing, split and the "in" substring test are computed as Python       *)
(* computes them.  None is the value NoneVal.  An exception leaving a      *)
(* function is a result whose field ok is FALSE.                           *)
(***************************************************************************)
EXTENDS Integers, Sequences, FiniteSets, TLC

VARIABLES
    \* ---- QuestionnaireSchema (the index object) ----
    schema,          \* self.schema: the document, as its id fields in document order
    cache,           \* the instance __dict__ entries written by cached_property
    obs,             \* what the latest read of a derived collection yielded
    \* ---- get_context_from_path ----
    ctx_in,          \* the question whose context is asked for
    ctx_out,         \* what get_context_from_path returned (or raised)
    \* ---- AnswerValidator (one validator object) ----
    validator,       \* self.answer, self.block, self.list_names, self.block_ids, self.errors
    runs,            \* how many times validate() has run on this object
    first_errors,    \* self.errors as observed after the first validate()
    ret,             \* the latest value returned by a directly called check
    \* ---- the numeric range table and the numeric checks ----
    numeric_answers, \* the numeric answers of the document, in document order
    answer_ranges,   \* the range table: answer id -> entry
    built,           \* how many answers have been given their entry
    num_errors,      \* per answer: the errors list of its validator
    num_log,         \* per answer: which numeric checks ran
    raised           \* the exception that ended the run, or "none"

vars == <<schema, cache, obs, ctx_in, ctx_out, validator, runs, first_errors, ret,
          numeric_answers, answer_ranges, built, num_errors, num_log, raised>>

index_vars == <<schema, cache, obs>>
context_vars == <<ctx_in, ctx_out>>
answer_vars == <<validator, runs, first_errors, ret>>
range_vars == <<numeric_answers, answer_ranges, built, num_errors, num_log, raised>>

-----------------------------------------------------------------------------
(* Python values                                                           *)

NoneVal == <<"None">>

Min(a, b) == IF a < b THEN a ELSE b
Max(a, b) == IF a > b THEN a ELSE b

\* The digits, as characters.
DigitChars == <<"0", "1", "2", "3", "4", "5", "6", "7", "8", "9">>

\* str(n) for n >= 0
RECURSIVE IntToStr(_)
IntToStr(n) ==
    IF n < 10 THEN <<DigitChars[n + 1]>>
    ELSE IntToStr(n \div 10) \o <<DigitChars[(n % 10) + 1]>>

IsDigit(c) == \E d \in 1..10 : DigitChars[d] = c

DigitValue(c) == CHOOSE d \in 0..9 : DigitChars[d + 1] = c

\* s[a:b] for 0 <= a, 0 <= b
Slice(s, a, b) == SubSeq(s, a + 1, Min(b, Len(s)))

\* s[a:]
SliceFrom(s, a) == SubSeq(s, a + 1, Len(s))

\* s.find(pat): the 0-based index of the first occurrence, or -1
Find(s, pat) ==
    LET hits == {i \in 0..(Len(s) - Len(pat)) :
                   \/ Len(pat) = 0
                   \/ s[i + 1] = pat[1] /\ SubSeq(s, i + 1, i + Len(pat)) = pat}
    IN IF hits = {} THEN -1 ELSE CHOOSE i \in hits : \A j \in hits : i <= j

\* pat in s
Contains(s, pat) ==
    \E i \in 0..(Len(s) - Len(pat)) :
        \/ Len(pat) = 0
        \/ s[i + 1] = pat[1] /\ SubSeq(s, i + 1, i + Len(pat)) = pat

\* s.split("."), for a non-empty separator of one character
RECURSIVE Split(_, _)
Split(s, sep) ==
    LET p == Find(s, <<sep>>)
    IN IF p < 0 THEN <<s>>
       ELSE <<Slice(s, 0, p)>> \o Split(SliceFrom(s, p + 1), sep)

\* sep.join(parts)
RECURSIVE Join(_, _)
Join(parts, sep) ==
    IF Len(parts) = 0 THEN <<>>
    ELSE IF Len(parts) = 1 THEN parts[1]
    ELSE parts[1] \o <<sep>> \o Join(Tail(parts), sep)

\* list.index(x): 0-based, or -1 where Python raises ValueError
ListIndex(list, x) ==
    LET hits == {i \in 1..Len(list) : list[i] = x}
    IN IF hits = {} THEN -1 ELSE (CHOOSE i \in hits : \A j \in hits : i <= j) - 1

\* The members of a sequence that satisfy a test, in order.
RECURSIVE SelectIdx(_, _)
SelectIdx(s, keep) ==
    IF Len(s) = 0 THEN <<>>
    ELSE LET rest == SelectIdx(SubSeq(s, 1, Len(s) - 1), keep)
         IN IF Len(s) \in keep THEN Append(rest, s[Len(s)]) ELSE rest

Range(s) == {s[i] : i \in 1..Len(s)}

Count(s, x) == Cardinality({i \in 1..Len(s) : s[i] = x})

RECURSIVE Flatten(_)
Flatten(ss) == IF Len(ss) = 0 THEN <<>> ELSE ss[1] \o Flatten(Tail(ss))

-----------------------------------------------------------------------------
(* The keys of the schema document, as Python strings                      *)

KeyChars(k) ==
    CASE k = "sections" -> <<"s","e","c","t","i","o","n","s">>
      [] k = "groups" -> <<"g","r","o","u","p","s">>
      [] k = "blocks" -> <<"b","l","o","c","k","s">>
      [] k = "question" -> <<"q","u","e","s","t","i","o","n">>
      [] k = "question_variants" ->
            <<"q","u","e","s","t","i","o","n","_","v","a","r","i","a","n","t","s">>
      [] k = "answers" -> <<"a","n","s","w","e","r","s">>
      [] k = "when" -> <<"w","h","e","n">>
      [] k = "goto" -> <<"g","o","t","o">>
      [] k = "routing_rules" -> <<"r","o","u","t","i","n","g","_","r","u","l","e","s">>
      [] k = "skip_conditions" ->
            <<"s","k","i","p","_","c","o","n","d","i","t","i","o","n","s">>
      [] k = "add_block" -> <<"a","d","d","_","b","l","o","c","k">>
      [] k = "edit_block" -> <<"e","d","i","t","_","b","l","o","c","k">>
      [] k = "remove_block" -> <<"r","e","m","o","v","e","_","b","l","o","c","k">>
      [] k = "add_or_edit_block" ->
            <<"a","d","d","_","o","r","_","e","d","i","t","_","b","l","o","c","k">>
      [] k = "id" -> <<"i","d">>

\* A step of a document path: a key, then (idx >= 0) an index into the list there.
Step(k, i) == [key |-> k, idx |-> i]
Key(k) == [key |-> k, idx |-> -1]

\* str(match.full_path) of jsonpath_rw: the steps joined by ".", an index as "[n]".
StepStr(st) ==
    IF st.idx < 0 THEN KeyChars(st.key)
    ELSE KeyChars(st.key) \o <<".", "[">> \o IntToStr(st.idx) \o <<"]">>

PathStr(steps) == Join([n \in 1..Len(steps) |-> StepStr(steps[n])], ".")

-----------------------------------------------------------------------------
(* The schema document                                                     *)
(*                                                                         *)
(* The document is held as its id fields in document order: the path of    *)
(* the mapping that carries the id (its steps), the id, and, where that    *)
(* mapping is an answer, the values of its options.  The questions, blocks *)
(* and sections of the document are the mappings these paths pass through. *)

\* An answer without an "options" key, and one with the option values vs.
NoOptions == [has |-> FALSE, values |-> <<>>]
Options(vs) == [has |-> TRUE, values |-> vs]

\* full_path is str(full_path) of the id field, as jsonpath reports it.
Field(steps, value, options) ==
    [steps |-> steps, full_path |-> PathStr(steps \o <<Key("id")>>),
     value |-> value, options |-> options]

\* parse("$..id").find(self.schema): every id field, with its full path
FindIds(doc) ==
    [n \in 1..Len(doc) |-> [full_path |-> doc[n].full_path, value |-> doc[n].value]]

\* The path of the question a field lies in (<<>> when it lies in none).
QuestionOf(steps) ==
    LET at == {n \in 1..Len(steps) : steps[n] = Key("question")}
    IN IF at = {} THEN <<>>
       ELSE SubSeq(steps, 1, CHOOSE n \in at : \A m \in at : n <= m)

\* The answers list of the question at qsteps: its answers, in document order.
AnswersOf(doc, qsteps) ==
    LET at == {n \in 1..Len(doc) :
                 /\ Len(doc[n].steps) = Len(qsteps) + 1
                 /\ SubSeq(doc[n].steps, 1, Len(qsteps)) = qsteps
                 /\ doc[n].steps[Len(qsteps) + 1].key = "answers"}
        picked == SelectIdx(doc, at)
    IN [n \in 1..Len(picked) |-> [id |-> picked[n].value, options |-> picked[n].options]]

\* parse("$..question").find(self.schema): every question, with its full path
RECURSIVE QuestionPaths(_, _)
QuestionPaths(doc, n) ==
    IF n = 0 THEN <<>>
    ELSE LET before == QuestionPaths(doc, n - 1)
             q == QuestionOf(doc[n].steps)
         IN IF q = <<>> \/ q \in Range(before) THEN before ELSE Append(before, q)

FindQuestions(doc) ==
    LET paths == QuestionPaths(doc, Len(doc))
    IN [n \in 1..Len(paths) |->
          [full_path |-> PathStr(paths[n]),
           value |-> [steps |-> paths[n], answers |-> AnswersOf(doc, paths[n])]]]

\* A path expression the jsonpath parser accepts: keys and "[n]" joined by ".".
ValidPath(path) ==
    LET parts == Split(path, ".")
        IsIndex(p) == /\ Len(p) >= 3
                      /\ p[1] = "["
                      /\ p[Len(p)] = "]"
                      /\ \A n \in 2..(Len(p) - 1) : IsDigit(p[n])
        IsKey(p) == /\ Len(p) >= 1
                    /\ \A n \in 1..Len(p) : p[n] \notin {"[", "]"}
    IN \A n \in 1..Len(parts) : IsIndex(parts[n]) \/ IsKey(parts[n])

\* jp.match(path, self.schema) for a path that ends in an id field
MatchIds(doc, path) ==
    LET picked == SelectIdx(doc, {n \in 1..Len(doc) : doc[n].full_path = path})
    IN [n \in 1..Len(picked) |-> picked[n].value]

\* __init__: self.section_ids = jp.match("$.sections[*].id", self.schema)
section_ids(doc) ==
    LET at == {n \in 1..Len(doc) :
                 Len(doc[n].steps) = 1 /\ doc[n].steps[1].key = "sections"}
        picked == SelectIdx(doc, at)
    IN [n \in 1..Len(picked) |-> picked[n].value]

\* __init__: self.blocks_by_id, as the path of the block each id is kept for
\* (a later block of the same id replaces an earlier one)
blocks_by_id(doc) ==
    LET IsBlock(n) == /\ Len(doc[n].steps) >= 1
                      /\ doc[n].steps[Len(doc[n].steps)].key = "blocks"
        ids == {doc[n].value : n \in {m \in 1..Len(doc) : IsBlock(m)}}
    IN [b \in ids |->
          LET at == {n \in 1..Len(doc) : IsBlock(n) /\ doc[n].value = b}
          IN doc[CHOOSE n \in at : \A m \in at : m <= n].steps]

-----------------------------------------------------------------------------
(* QuestionnaireSchema.get_context_from_path and what it calls             *)

Returned(v) == [ok |-> TRUE, value |-> v, exc |-> "none"]
Raise(e) == [ok |-> FALSE, value |-> NoneVal, exc |-> e]

\* get_key_index_from_path(key, path): int() of ONE character of the path
get_key_index_from_path(key, path) ==
    LET position == Find(path, key) + Len(key \o <<".", "[">>)
        text == Slice(path, position, position + 1)
    IN IF Len(text) = 1 /\ IsDigit(text[1])
       THEN Returned(DigitValue(text[1]))
       ELSE Raise("ValueError")

\* get_element_path(key, path): the path cut len(key + ".[0]") after the key starts
get_element_path(key, path) ==
    LET position == Find(path, key)
    IN Slice(path, 0, position + Len(key \o <<".", "[", "0", "]">>))

\* get_path_id(path): jp.match1(path + ".id", self.schema)
get_path_id(doc, path) ==
    LET expr == path \o <<".">> \o KeyChars("id")
    IN IF ~ValidPath(expr) THEN Raise("JsonPathParseError")
       ELSE LET matches == MatchIds(doc, expr)
            IN IF Len(matches) > 0 THEN Returned(matches[1]) ELSE Returned(NoneVal)

SubBlockKeys == <<"add_block", "edit_block", "add_or_edit_block", "remove_block">>

\* self.blocks_by_id[block_id][key]["id"], key being a string cut out of the path
SubBlockId(doc, block_id, key) ==
    IF block_id \notin DOMAIN blocks_by_id(doc) THEN Raise("KeyError")
    ELSE LET expr == PathStr(blocks_by_id(doc)[block_id])
                       \o <<".">> \o key \o <<".">> \o KeyChars("id")
             matches == IF ValidPath(expr) THEN MatchIds(doc, expr) ELSE <<>>
         IN IF Len(matches) > 0 THEN Returned(matches[1]) ELSE Raise("KeyError")

\* get_context_from_path(full_path)
get_context_from_path(doc, full_path) ==
    LET section_index == get_key_index_from_path(KeyChars("sections"), full_path)
        block_path == get_element_path(KeyChars("blocks"), full_path)
        group_path == get_element_path(KeyChars("groups"), full_path)
        group_id == get_path_id(doc, group_path)
        block_id == get_path_id(doc, block_path)
        in_sub_block == \E n \in 1..Len(SubBlockKeys) :
                            Contains(full_path, KeyChars(SubBlockKeys[n]))
        key_path == SliceFrom(full_path, Len(block_path) + 1)
        question_at == Find(key_path, <<".">> \o KeyChars("question"))
        \* key_path[: -1] when ".question" is not found
        key == IF question_at >= 0 THEN Slice(key_path, 0, question_at)
               ELSE SubSeq(key_path, 1, Len(key_path) - 1)
        sub_id == SubBlockId(doc, block_id.value, key)
        sections == section_ids(doc)
    IN IF ~section_index.ok THEN Raise(section_index.exc)
       ELSE IF ~group_id.ok THEN Raise(group_id.exc)
       ELSE IF ~block_id.ok THEN Raise(block_id.exc)
       ELSE IF in_sub_block /\ ~sub_id.ok THEN Raise(sub_id.exc)
       ELSE IF section_index.value >= Len(sections) THEN Raise("IndexError")
       ELSE Returned([section |-> sections[section_index.value + 1],
                      block |-> IF in_sub_block THEN sub_id.value ELSE block_id.value,
                      group_id |-> group_id.value])

-----------------------------------------------------------------------------
(* Context resolution: a question at sections[i].groups[j].blocks[k]       *)

\* The largest list index of the documents examined.
MaxIndex == 10

IndexChoices == {0, 1, 2, MaxIndex - 1, MaxIndex}

NoSubBlock == "none"

\* The ids of the document built around the question.
SectionId(i) == <<"s">> \o IntToStr(i)
GroupId(i, j) == <<"g">> \o IntToStr(i) \o <<"_">> \o IntToStr(j)
BlockId(i, j, k) == <<"b">> \o IntToStr(i) \o <<"_">> \o IntToStr(j) \o <<"_">> \o IntToStr(k)
SubBlockIdOf(i, j, k) == <<"x">> \o IntToStr(i) \o <<"_">> \o IntToStr(j) \o <<"_">> \o IntToStr(k)

BlockSteps(i, j, k) == <<Step("sections", i), Step("groups", j), Step("blocks", k)>>

\* The path of the question: directly in the block, in a sub-block of it, and
\* either the question itself or the question of a variant.
QuestionSteps(in) ==
    BlockSteps(in.i, in.j, in.k)
      \o (IF in.sub = NoSubBlock THEN <<>> ELSE <<Key(in.sub)>>)
      \o (IF in.variant THEN <<Step("question_variants", 0)>> ELSE <<>>)
      \o <<Key("question")>>

\* A document holding sections 0..i, in section i the groups 0..j, in group j
\* the blocks 0..k, and in block k the question (with its sub-block, if any).
ContextDoc(in) ==
    [n \in 1..(in.i + 1) |-> Field(<<Step("sections", n - 1)>>, SectionId(n - 1), NoOptions)]
      \o [n \in 1..(in.j + 1) |->
            Field(<<Step("sections", in.i), Step("groups", n - 1)>>,
                  GroupId(in.i, n - 1), NoOptions)]
      \o [n \in 1..(in.k + 1) |->
            Field(BlockSteps(in.i, in.j, n - 1), BlockId(in.i, in.j, n - 1), NoOptions)]
      \o (IF in.sub = NoSubBlock THEN <<>>
          ELSE <<Field(BlockSteps(in.i, in.j, in.k) \o <<Key(in.sub)>>,
                       SubBlockIdOf(in.i, in.j, in.k), NoOptions)>>)
      \o <<Field(QuestionSteps(in), <<"q">>, NoOptions)>>

ContextInputs ==
    [i : IndexChoices, j : IndexChoices, k : IndexChoices,
     sub : {NoSubBlock} \cup Range(SubBlockKeys), variant : BOOLEAN]

Pending == [ok |-> FALSE, value |-> NoneVal, exc |-> "pending"]

IdleIndex == /\ schema = <<>>
             /\ cache = <<>>
             /\ obs = <<>>

IdleContext == /\ ctx_in = <<>>
               /\ ctx_out = Pending

IdleAnswer == /\ validator = <<>>
              /\ runs = 0
              /\ first_errors = <<>>
              /\ ret = <<>>

IdleRange == /\ numeric_answers = <<>>
             /\ answer_ranges = <<>>
             /\ built = 0
             /\ num_errors = <<>>
             /\ num_log = <<>>
             /\ raised = "none"

ContextInit == /\ ctx_in \in ContextInputs
               /\ ctx_out = Pending
               /\ IdleIndex /\ IdleAnswer /\ IdleRange

\* questions_with_context, for the one question of the document:
\* self.get_context_from_path(str(match.full_path))
ResolveContext ==
    /\ ctx_out.exc = "pending"
    /\ LET doc == ContextDoc(ctx_in)
           match == FindQuestions(doc)[1]
       IN ctx_out' = get_context_from_path(doc, match.full_path)
    /\ UNCHANGED <<ctx_in, index_vars, answer_vars, range_vars>>

\* The caller goes on to another question.
NextQuestion ==
    /\ ctx_out.exc # "pending"
    /\ ctx_in' \in ContextInputs
    /\ ctx_out' = Pending
    /\ UNCHANGED <<index_vars, answer_vars, range_vars>>

ContextNext == ResolveContext \/ NextQuestion

SpecContext == ContextInit /\ [][ContextNext]_vars

\* C9: for every question at sections[i].groups[j].blocks[k], whatever the
\* indices (10 and more included), get_context_from_path returns the id of
\* sections[i] as section, the id of groups[j] of that section as group_id and
\* the id of blocks[k] of that group as block, or, where the path passes
\* through a sub-block, that sub-block's own id as block.
C9_ContextIsEnclosing ==
    ctx_out.exc # "pending" =>
        /\ ctx_out.ok
        /\ ctx_out.value =
             [section |-> SectionId(ctx_in.i),
              block |-> IF ctx_in.sub = NoSubBlock
                        THEN BlockId(ctx_in.i, ctx_in.j, ctx_in.k)
                        ELSE SubBlockIdOf(ctx_in.i, ctx_in.j, ctx_in.k),
              group_id |-> GroupId(ctx_in.i, ctx_in.j)]

\* The same for the questions whose indices are all below 10.
ContextRightBelowTen ==
    (ctx_out.exc # "pending" /\ ctx_in.i < 10 /\ ctx_in.j < 10 /\ ctx_in.k < 10) =>
        /\ ctx_out.ok
        /\ ctx_out.value =
             [section |-> SectionId(ctx_in.i),
              block |-> IF ctx_in.sub = NoSubBlock
                        THEN BlockId(ctx_in.i, ctx_in.j, ctx_in.k)
                        ELSE SubBlockIdOf(ctx_in.i, ctx_in.j, ctx_in.k),
              group_id |-> GroupId(ctx_in.i, ctx_in.j)]

\* A section index of 10 or more silently resolves to another section.
WrongSectionReturned ==
    ctx_out.ok /\ ctx_out.value.section # SectionId(ctx_in.i)

-----------------------------------------------------------------------------
(* QuestionnaireSchema.id_paths and QuestionnaireSchema.ids                *)

DottedKeys(keys) == Join([n \in 1..Len(keys) |-> KeyChars(keys[n])], ".")

\* ignored_paths.  No comma separates its first two literals, which Python
\* therefore joins into the one string "routing_rulesskip_conditions".
ignored_paths ==
    << KeyChars("routing_rules") \o KeyChars("skip_conditions"),
       KeyChars("when"),
       DottedKeys(<<"edit_block", "question", "answers">>),
       DottedKeys(<<"add_block", "question", "answers">>),
       DottedKeys(<<"remove_block", "question", "answers">>),
       DottedKeys(<<"edit_block", "question_variants", "answers">>),
       DottedKeys(<<"add_block", "question_variants", "answers">>),
       DottedKeys(<<"remove_block", "question_variants", "answers">>) >>

\* any(ignored_path in full_path for ignored_path in ignored_paths)
Ignored(full_path) ==
    \E p \in 1..Len(ignored_paths) : Contains(full_path, ignored_paths[p])

\* What the id_paths generator yields when run from its start:
\* (str(match.full_path)[:-3], match.value) of every match not ignored
IdPathItems(doc) ==
    LET found == FindIds(doc)
        kept == {n \in 1..Len(found) : ~Ignored(found[n].full_path)}
        picked == SelectIdx(found, kept)
    IN [n \in 1..Len(picked) |->
          [path |-> SubSeq(picked[n].full_path, 1, Len(picked[n].full_path) - 3),
           value |-> picked[n].value]]

\* The key of unique_ids_per_block an item is filed under, <<>> for an item
\* that goes to non_block_ids, and "ValueError" where list.index raises.
BlockStringPath(path) ==
    IF ~Contains(path, KeyChars("blocks")) THEN Returned(<<>>)
    ELSE LET path_list == Split(path, ".")
             at == ListIndex(path_list, KeyChars("blocks"))
         IN IF at < 0 THEN Raise("ValueError")
            ELSE Returned(Join(Slice(path_list, 0, at + 2), "."))

\* A list without its repeats, the first occurrence of each member kept.
RECURSIVE Unique(_)
Unique(s) ==
    IF Len(s) = 0 THEN <<>>
    ELSE LET before == Unique(SubSeq(s, 1, Len(s) - 1))
         IN IF s[Len(s)] \in Range(before) THEN before ELSE Append(before, s[Len(s)])

\* ids with a list per block in place of the set: every id is kept.
ComputeIdsKeepingRepeats(items) ==
    LET keys == [n \in 1..Len(items) |-> BlockStringPath(items[n].path)]
        in_block == SelectIdx(items, {n \in 1..Len(items) : keys[n].value # <<>>})
        non_block == SelectIdx(items, {n \in 1..Len(items) : keys[n].value = <<>>})
    IN Returned([n \in 1..Len(in_block) |-> in_block[n].value]
                  \o [n \in 1..Len(non_block) |-> non_block[n].value])

\* The body of ids, over the items the id_paths generator still yields.
ComputeIds(items) ==
    LET keys == [n \in 1..Len(items) |-> BlockStringPath(items[n].path)]
        in_block == {n \in 1..Len(items) : keys[n].ok /\ keys[n].value # <<>>}
        block_paths == Unique([n \in 1..Len(SelectIdx(keys, in_block)) |->
                                  SelectIdx(keys, in_block)[n].value])
        \* unique_ids_per_block[string_path]: a set, so each id is kept once
        BlockIds(bp) ==
            LET mine == SelectIdx(items, {n \in in_block : keys[n].value = bp})
            IN Unique([n \in 1..Len(mine) |-> mine[n].value])
        non_block == SelectIdx(items, {n \in 1..Len(items) :
                                         keys[n].ok /\ keys[n].value = <<>>})
        non_block_ids == [n \in 1..Len(non_block) |-> non_block[n].value]
    IN IF \E n \in 1..Len(items) : ~keys[n].ok THEN Raise("ValueError")
       ELSE Returned(Flatten([n \in 1..Len(block_paths) |-> BlockIds(block_paths[n])])
                       \o non_block_ids)

-----------------------------------------------------------------------------
(* The derived collections of QuestionnaireSchema                          *)
(*                                                                         *)
(* functools.cached_property runs the method at the first read and keeps   *)
(* what it returned in the instance.  For a method whose body yields, what *)
(* it returned is a generator object: the instance keeps that one object,  *)
(* and every read hands it out again, wherever its iteration has got to.   *)

\* What the questions_with_context generator yields when run from its start.
QuestionItems(doc) ==
    LET found == FindQuestions(doc)
    IN [n \in 1..Len(found) |->
          [question |-> found[n].value,
           context |-> get_context_from_path(doc, found[n].full_path)]]

\* The body of answers, over the items questions_with_context still yields.
AnswerItems(items) == Flatten([n \in 1..Len(items) |-> items[n].question.answers])

\* The body of answers_with_context, over the items questions_with_context
\* still yields: a dict, a later answer of the same id replacing an earlier one.
ComputeAnswersWithContext(items) ==
    LET pairs == Flatten([n \in 1..Len(items) |->
                    [m \in 1..Len(items[n].question.answers) |->
                        [answer |-> items[n].question.answers[m],
                         context |-> items[n].context.value]]])
        keys == {pairs[n].answer.id : n \in 1..Len(pairs)}
    IN [k \in keys |->
          LET at == {n \in 1..Len(pairs) : pairs[n].answer.id = k}
          IN pairs[CHOOSE n \in at : \A m \in at : m <= n]]

\* The body of answer_id_to_option_values_map, over the answers that the
\* answers generator still yields: a defaultdict(set).
ComputeOptionValuesMap(answers) ==
    LET with_options == SelectIdx(answers, {n \in 1..Len(answers) : answers[n].options.has})
        keys == {with_options[n].id : n \in 1..Len(with_options)}
    IN [k \in keys |->
          UNION {Range(with_options[n].options.values) :
                   n \in {m \in 1..Len(with_options) : with_options[m].id = k}}]

Unset == [set |-> FALSE, val |-> <<>>]
Kept(v) == [set |-> TRUE, val |-> v]

\* self.questions_with_context: the generator kept, or a new one at its start;
\* val is what the generator has yet to yield.
questions_with_context(c, doc) ==
    IF c.questions_with_context.set THEN c.questions_with_context.val
    ELSE QuestionItems(doc)

\* self.id_paths, likewise
id_paths(c, doc) == IF c.id_paths.set THEN c.id_paths.val ELSE IdPathItems(doc)

\* self.answers: val says whether the generator has run (it runs to its end).
\* Run for the first time it iterates self.questions_with_context.
answers(c, doc) ==
    IF c.answers.set /\ c.answers.val THEN <<>>
    ELSE AnswerItems(questions_with_context(c, doc))

\* An observation: the collection read, what the read yielded, and whether the
\* read was the first to touch the collection and the generators it draws on.
Read(name, v, first) == [coll |-> name, value |-> v, first |-> first]

\* for ... in self.questions_with_context, to the end
ReadQuestionsWithContext ==
    /\ obs' = Read("questions_with_context", questions_with_context(cache, schema),
                 ~cache.questions_with_context.set)
    /\ cache' = [cache EXCEPT !.questions_with_context = Kept(<<>>)]
    /\ UNCHANGED <<schema, context_vars, answer_vars, range_vars>>

\* for ... in self.answers, to the end
ReadAnswers ==
    /\ obs' = Read("answers", answers(cache, schema),
                 ~cache.answers.set /\ ~cache.questions_with_context.set)
    /\ cache' = IF cache.answers.set /\ cache.answers.val THEN cache
                ELSE [cache EXCEPT !.answers = Kept(TRUE),
                                   !.questions_with_context = Kept(<<>>)]
    /\ UNCHANGED <<schema, context_vars, answer_vars, range_vars>>

\* self.answers_with_context
ReadAnswersWithContext ==
    /\ IF cache.answers_with_context.set
       THEN /\ obs' = Read("answers_with_context", cache.answers_with_context.val, FALSE)
            /\ UNCHANGED cache
       ELSE LET made == ComputeAnswersWithContext(questions_with_context(cache, schema))
            IN /\ obs' = Read("answers_with_context", made, ~cache.questions_with_context.set)
               /\ cache' = [cache EXCEPT !.answers_with_context = Kept(made),
                                         !.questions_with_context = Kept(<<>>)]
    /\ UNCHANGED <<schema, context_vars, answer_vars, range_vars>>

\* self.answer_id_to_option_values_map
ReadAnswerIdToOptionValuesMap ==
    /\ IF cache.answer_id_to_option_values_map.set
       THEN /\ obs' = Read("answer_id_to_option_values_map",
                           cache.answer_id_to_option_values_map.val, FALSE)
            /\ UNCHANGED cache
       ELSE LET made == ComputeOptionValuesMap(answers(cache, schema))
            IN /\ obs' = Read("answer_id_to_option_values_map", made,
                             ~cache.answers.set /\ ~cache.questions_with_context.set)
               /\ cache' = [cache EXCEPT !.answer_id_to_option_values_map = Kept(made),
                                         !.answers = Kept(TRUE),
                                         !.questions_with_context =
                                            IF cache.answers.set /\ cache.answers.val
                                            THEN cache.questions_with_context
                                            ELSE Kept(<<>>)]
    /\ UNCHANGED <<schema, context_vars, answer_vars, range_vars>>

\* for ... in self.id_paths, to the end
ReadIdPaths ==
    /\ obs' = Read("id_paths", id_paths(cache, schema), ~cache.id_paths.set)
    /\ cache' = [cache EXCEPT !.id_paths = Kept(<<>>)]
    /\ UNCHANGED <<schema, context_vars, answer_vars, range_vars>>

\* self.ids
ReadIds ==
    /\ IF cache.ids.set
       THEN /\ obs' = Read("ids", cache.ids.val, FALSE)
            /\ UNCHANGED cache
       ELSE LET made == ComputeIds(id_paths(cache, schema))
            IN /\ made.ok
               /\ obs' = Read("ids", made.value, ~cache.id_paths.set)
               /\ cache' = [cache EXCEPT !.ids = Kept(made.value),
                                         !.id_paths = Kept(<<>>)]
    /\ UNCHANGED <<schema, context_vars, answer_vars, range_vars>>

-----------------------------------------------------------------------------
(* The documents the index is built over                                   *)

\* The most id fields a document holds besides those of its section, group,
\* blocks and sub-blocks.
MaxFields == 2

\* The largest index of a block of the document.
MaxBlock == 1

IdValues == << <<"a">>, <<"b">> >>

\* Where, inside a block, an id field may lie (the path from the block on).
BlockTails ==
    << [steps |-> <<Key("question")>>, options |-> NoOptions],
       [steps |-> <<Key("question"), Step("answers", 0)>>, options |-> NoOptions],
       [steps |-> <<Key("question"), Step("answers", 0)>>, options |-> Options(<<<<"y">>>>)],
       [steps |-> <<Step("question_variants", 0), Key("question"), Step("answers", 0)>>,
        options |-> Options(<<<<"y">>, <<"z">>>>)],
       [steps |-> <<Step("question_variants", 1), Key("question"), Step("answers", 0)>>,
        options |-> NoOptions],
       [steps |-> <<Step("routing_rules", 0), Key("goto"), Step("when", 0)>>,
        options |-> NoOptions],
       [steps |-> <<Step("routing_rules", 0), Key("goto")>>, options |-> NoOptions],
       [steps |-> <<Step("skip_conditions", 0)>>, options |-> NoOptions],
       [steps |-> <<Key("add_block"), Key("question"), Step("answers", 0)>>,
        options |-> NoOptions],
       [steps |-> <<Key("edit_block"), Step("question_variants", 0), Key("question"),
                    Step("answers", 0)>>, options |-> NoOptions],
       [steps |-> <<Key("add_or_edit_block"), Key("question"), Step("answers", 0)>>,
        options |-> NoOptions],
       [steps |-> <<Key("remove_block"), Key("question"), Step("answers", 0)>>,
        options |-> NoOptions] >>

\* Where, in the group but outside its blocks, an id field may lie.
GroupTails ==
    << [steps |-> <<Step("skip_conditions", 0), Step("when", 0)>>, options |-> NoOptions],
       [steps |-> <<Step("skip_conditions", 0)>>, options |-> NoOptions] >>

GroupSteps == <<Step("sections", 0), Step("groups", 0)>>

\* The tails of BlockTails that lie in a question.
QuestionTails == SelectIdx(BlockTails, {1, 2, 3, 4, 9})

\* The id fields a document may hold besides its skeleton, in document order:
\* at each of the given places in the group and in each block, each id value.
Candidates(group_tails, block_tails) ==
    Flatten([t \in 1..Len(group_tails) |->
               [v \in 1..Len(IdValues) |->
                   Field(GroupSteps \o group_tails[t].steps, IdValues[v],
                         group_tails[t].options)]])
      \o Flatten([b \in 1..(MaxBlock + 1) |->
                    Flatten([t \in 1..Len(block_tails) |->
                               [v \in 1..Len(IdValues) |->
                                   Field(BlockSteps(0, 0, b - 1) \o block_tails[t].steps,
                                         IdValues[v], block_tails[t].options)]])])

\* The sub-block a path passes through (its steps up to the sub-block), or <<>>.
SubBlockOf(steps) ==
    LET at == {n \in 1..Len(steps) : steps[n].key \in Range(SubBlockKeys)}
    IN IF at = {} THEN <<>> ELSE SubSeq(steps, 1, CHOOSE n \in at : \A m \in at : n <= m)

\* The id fields every document has: of its section, its group, its blocks, and
\* of each sub-block that one of the other fields lies in.
Skeleton(extras) ==
    LET subs == Unique(SelectIdx([n \in 1..Len(extras) |-> SubBlockOf(extras[n].steps)],
                                 {n \in 1..Len(extras) : SubBlockOf(extras[n].steps) # <<>>}))
    IN <<Field(<<Step("sections", 0)>>, SectionId(0), NoOptions),
         Field(GroupSteps, GroupId(0, 0), NoOptions)>>
         \o [b \in 1..(MaxBlock + 1) |->
               Field(BlockSteps(0, 0, b - 1), BlockId(0, 0, b - 1), NoOptions)]
         \o [n \in 1..Len(subs) |->
               Field(subs[n], <<"x">> \o IntToStr(subs[n][3].idx)
                                \o KeyChars(subs[n][4].key), NoOptions)]

\* The documents: the skeleton and up to MaxFields further id fields, no two
\* at the same path.
Documents(candidates) ==
    LET picks == UNION {{p \in [1..n -> 1..Len(candidates)] :
                           \A a, b \in 1..n : a < b =>
                               /\ p[a] < p[b]
                               /\ candidates[p[a]].steps # candidates[p[b]].steps}
                        : n \in 0..MaxFields}
    IN {LET extras == [n \in 1..Len(p) |-> candidates[p[n]]]
        IN Skeleton(extras) \o extras : p \in picks}

EmptyCache ==
    [questions_with_context |-> Unset, answers |-> Unset, answers_with_context |-> Unset,
     answer_id_to_option_values_map |-> Unset, id_paths |-> Unset, ids |-> Unset]

NothingRead == [coll |-> "none", value |-> <<>>, first |-> FALSE]

\* QuestionnaireSchema(schema), for a document of questions and answers
IndexInit ==
    /\ schema \in Documents(Candidates(<<>>, QuestionTails))
    /\ cache = EmptyCache
    /\ obs = NothingRead
    /\ IdleContext /\ IdleAnswer /\ IdleRange

\* The reads of the collections drawn from the questions of the document.
IndexNext ==
    \/ ReadQuestionsWithContext
    \/ ReadAnswers
    \/ ReadAnswersWithContext
    \/ ReadAnswerIdToOptionValuesMap

SpecIndex == IndexInit /\ [][IndexNext]_vars

\* QuestionnaireSchema(schema), for a document with id fields of every kind
IdsInit ==
    /\ schema \in Documents(Candidates(GroupTails, BlockTails))
    /\ cache = EmptyCache
    /\ obs = NothingRead
    /\ IdleContext /\ IdleAnswer /\ IdleRange

\* The reads of the collections drawn from the id fields of the document.
IdsNext == ReadIdPaths \/ ReadIds

SpecIds == IdsInit /\ [][IdsNext]_vars

\* The documents examined are well formed: every question's context resolves.
ContextsResolve ==
    obs.coll = "none" =>
    \A n \in 1..Len(QuestionItems(schema)) : QuestionItems(schema)[n].context.ok

-----------------------------------------------------------------------------
(* Claims about the derived collections                                    *)

\* What a read of the collection yields on a new index over the document.
FirstRead(coll, doc) ==
    CASE coll = "questions_with_context" -> QuestionItems(doc)
      [] coll = "answers" -> AnswerItems(QuestionItems(doc))
      [] coll = "answers_with_context" -> ComputeAnswersWithContext(QuestionItems(doc))
      [] coll = "answer_id_to_option_values_map" ->
            ComputeOptionValuesMap(AnswerItems(QuestionItems(doc)))
      [] coll = "id_paths" -> IdPathItems(doc)
      [] coll = "ids" -> ComputeIds(IdPathItems(doc)).value

\* C1: every read of a derived collection, after whatever reads, yields what
\* the first read of that collection yields on a new index over the document.
C1_EveryReadAsTheFirst ==
    obs.coll # "none" => obs.value = FirstRead(obs.coll, schema)

\* A read that is the first to touch what it draws on yields the collection.
FirstReadYieldsCollection ==
    (obs.coll # "none" /\ obs.first) => obs.value = FirstRead(obs.coll, schema)

\* answers_with_context has been read, and a later read of answers found
\* nothing although the document has answers.
AnswersFoundEmpty ==
    /\ obs.coll = "answers"
    /\ cache.answers_with_context.set
    /\ obs.value = <<>>
    /\ Len(AnswerItems(QuestionItems(schema))) > 0

\* The block an id field lies in (its path up to blocks[k]), <<>> outside blocks.
BlockOf(steps) ==
    LET at == {n \in 1..Len(steps) : steps[n].key = "blocks"}
    IN IF at = {} THEN <<>> ELSE SubSeq(steps, 1, CHOOSE n \in at : \A m \in at : n <= m)

\* The id fields id_paths does not leave out.
NotExcluded(doc) == {n \in 1..Len(doc) : ~Ignored(doc[n].full_path)}

BlocksHolding(doc, v) ==
    {BlockOf(doc[n].steps) :
        n \in {m \in NotExcluded(doc) : doc[m].value = v /\ BlockOf(doc[m].steps) # <<>>}}

PassesThroughReference(steps) ==
    \/ \E n \in 1..Len(steps) : steps[n].key \in {"routing_rules", "skip_conditions", "when"}
    \/ \E n, m \in 1..Len(steps) :
          /\ steps[n].key \in {"add_block", "edit_block", "remove_block"}
          /\ steps[m].key = "answers"
          /\ steps[m - 1] = Key("question")
          /\ \/ m - 1 = n + 1
             \/ m - 1 = n + 2 /\ steps[n + 1].key = "question_variants"

\* C8: id_paths yields no id field whose path passes through a reference, and
\* every other id field exactly once, with its path.
C8_IdPathsLeaveOutReferences ==
    (obs.coll = "id_paths" /\ obs.first) =>
        LET declared == SelectIdx(schema, {n \in 1..Len(schema) :
                                             ~PassesThroughReference(schema[n].steps)})
        IN obs.value = [n \in 1..Len(declared) |->
                           [path |-> PathStr(declared[n].steps),
                            value |-> declared[n].value]]

-----------------------------------------------------------------------------
(* Numbers                                                                 *)
(*                                                                         *)
(* A number is held exactly, as hi * Limb + lo + frac / FracUnit with      *)
(* 0 <= lo < Limb and 0 <= frac < FracUnit, so that MAX_NUMBER, which      *)
(* exceeds 32 bits, and the steps 1 / 10 ** decimal_places are values of   *)
(* the model.  int says whether the Python value is an int.                *)

Limb == 100000
FracUnit == 1000000

Normal(hi, lo, frac, int) ==
    LET lo2 == lo + (frac \div FracUnit)
    IN [hi |-> hi + (lo2 \div Limb), lo |-> lo2 % Limb, frac |-> frac % FracUnit,
        int |-> int]

\* an int of at most 32 bits
NumInt(n) == Normal(0, n, 0, TRUE)

\* a + units / FracUnit, a float
NumPlus(a, units) == Normal(a.hi, a.lo, a.frac + units, FALSE)

\* a < b
NumLess(a, b) ==
    \/ a.hi < b.hi
    \/ a.hi = b.hi /\ a.lo < b.lo
    \/ a.hi = b.hi /\ a.lo = b.lo /\ a.frac < b.frac

Zero == NumInt(0)

\* AnswerValidator.MAX_NUMBER = 9999999999
MAX_NUMBER == [hi |-> 99999, lo |-> 99999, frac |-> 0, int |-> TRUE]

\* AnswerValidator.MIN_NUMBER = -999999999
MIN_NUMBER == NumInt(-999999999)

MAX_DECIMAL_PLACES == 6

-----------------------------------------------------------------------------
(* AnswerValidator: the checks on one answer                               *)

\* An error record: the message, the answer's id and the context fields.
Error(message, id, text, num, list) ==
    [message |-> message, id |-> id, text |-> text, num |-> num, list |-> list]

\* add_error(message, **context): the record appended to self.errors
add_error(answer, message, text, num) == Error(message, answer.id, text, num, <<>>)

\* A message appended to the local list that a check returns.
Local(answer, message, text, list) == Error(message, answer.id, text, Zero, list)

\* self.options: self.answer.get("options", [])
options(answer) == IF answer.options.has THEN answer.options.list ELSE <<>>

\* _validate_duplicate_options: the list it returns
RECURSIVE DuplicateScan(_, _)
DuplicateScan(answer, n) ==
    IF n = 0 THEN [labels |-> {}, values |-> {}, errors |-> <<>>]
    ELSE LET before == DuplicateScan(answer, n - 1)
             option == options(answer)[n]
         IN IF option.label.kind = "dict" THEN before
            ELSE [labels |-> before.labels \cup {option.label.text},
                  values |-> before.values \cup {option.value},
                  errors |->
                      before.errors
                        \o (IF option.label.text \in before.labels
                            THEN <<Local(answer, "Duplicate label found", option.label.text, <<>>)>>
                            ELSE <<>>)
                        \o (IF option.value \in before.values
                            THEN <<Local(answer, "Duplicate value found", option.value, <<>>)>>
                            ELSE <<>>)]

_validate_duplicate_options(answer) ==
    Returned(DuplicateScan(answer, Len(options(answer))).errors)

\* validate_labels_and_values_match: the list it returns
validate_labels_and_values_match(answer) ==
    LET opts == options(answer)
        Mismatch(option) == ~option.label.plural /\ option.label.text # option.value
        bad == SelectIdx(opts, {n \in 1..Len(opts) : Mismatch(opts[n])})
    IN Returned([n \in 1..Len(bad) |->
                    Local(answer, "Found mismatching answer value for label",
                          bad[n].label.text, <<>>)])

\* _validate_answer_actions: the records it adds to self.errors
_validate_answer_actions(v) ==
    LET opts == options(v.answer)
        OfOption(option) ==
            IF ~option.action.has_params THEN <<>>
            ELSE (IF option.action.list_name # "" /\ option.action.list_name \notin v.list_names
                  THEN <<add_error(v.answer, "List name defined in action params does not exist",
                                   option.action.list_name, Zero)>>
                  ELSE <<>>)
                 \o (IF option.action.block_id # "" /\ option.action.block_id \notin v.block_ids
                     THEN <<add_error(v.answer, "Block id defined in action params does not exist",
                                      option.action.block_id, Zero)>>
                     ELSE <<>>)
    IN Flatten([n \in 1..Len(opts) |-> OfOption(opts[n])])

\* "goto" in rule and "when" in rule["goto"].keys()
HasWhen(rule) == rule.goto /\ rule.when.has

\* has_default_route
has_default_route(block) ==
    \E n \in 1..Len(block.routing_rules) : ~HasWhen(block.routing_rules[n])

\* list.remove(x): the list without the first occurrence of x
Remove(list, x) ==
    LET at == ListIndex(list, x)
    IN SubSeq(list, 1, at) \o SubSeq(list, at + 2, Len(list))

\* The when entries of one rule, applied in turn to option_values.
RECURSIVE AfterWhens(_, _, _, _)
AfterWhens(answer, clause, n, option_values) ==
    IF n = 0 THEN option_values
    ELSE LET before == AfterWhens(answer, clause, n - 1, option_values)
             when == clause[n]
         IN IF /\ when.has_id
               /\ when.has_value
               /\ when.id = answer.id
               /\ when.value \in Range(before)
            THEN Remove(before, when.value)
            ELSE before

\* The rules applied in turn: option_values after the loop over routing_rules.
RECURSIVE AfterRules(_, _, _, _)
AfterRules(answer, rules, n, option_values) ==
    IF n = 0 THEN option_values
    ELSE LET before == AfterRules(answer, rules, n - 1, option_values)
         IN IF HasWhen(rules[n])
            THEN AfterWhens(answer, rules[n].when.clause, Len(rules[n].when.clause), before)
            ELSE <<>>

\* Whether the check looks at the routing rules at all: self.block and
\* "routing_rules" in self.block and self.block["routing_rules"] and self.options
RoutingApplies(v) ==
    /\ v.block.has
    /\ v.block.has_routing_rules
    /\ Len(v.block.routing_rules) > 0
    /\ Len(options(v.answer)) > 0

\* The unrouted-options error whenever an option is left over.
AnyOptionLeft(option_values, opts) == Len(option_values) > 0

\* has_unrouted_options = option_values and len(option_values) != len(self.options)
has_unrouted_options(option_values, opts) ==
    Len(option_values) > 0 /\ Len(option_values) # Len(opts)

\* _validate_routing_on_answer_options: the list it returns
_validate_routing_on_answer_options(v) ==
    IF ~RoutingApplies(v) THEN Returned(<<>>)
    ELSE LET opts == options(v.answer)
             option_values ==
                 AfterRules(v.answer, v.block.routing_rules, Len(v.block.routing_rules),
                            [n \in 1..Len(opts) |-> opts[n].value])
         IN IF v.answer.mandatory = "absent" THEN Raise("KeyError")
            ELSE Returned(
                   (IF v.answer.mandatory = "false" /\ ~has_default_route(v.block)
                    THEN <<Local(v.answer, "Default route not defined for optional question",
                                 "", <<>>)>>
                    ELSE <<>>)
                   \o (IF has_unrouted_options(option_values, opts)
                       THEN <<Local(v.answer,
                                    "Routing rule not defined for all answers or default not defined",
                                    "", option_values)>>
                       ELSE <<>>))


\* are_decimal_places_valid
are_decimal_places_valid(answer) ==
    IF answer.calculated
    THEN answer.decimal_places.has /\ answer.decimal_places.n = 2
    ELSE TRUE

\* get_relative_date(value, offset), for a "%Y-%m" date and an offset of years
\* and months: the months since year 0
get_relative_date(date, offset) ==
    date.year * 12 + (date.month - 1) + offset.years * 12 + offset.months

\* _get_offset_date, for a bound whose value is a literal date
_get_offset_date(bound) == get_relative_date(bound.date, bound.offset)

\* is_offset_date_valid
is_offset_date_valid(answer) ==
    IF /\ answer.type = "Date"
       /\ answer.minimum.kind # "absent"
       /\ answer.maximum.kind # "absent"
       /\ answer.minimum.kind = "date"
       /\ answer.maximum.kind = "date"
    THEN _get_offset_date(answer.minimum) < _get_offset_date(answer.maximum)
    ELSE TRUE

\* The characters of the class [A-Za-z0-9_.\-/~]
UrlPathChars ==
        {
    "A", "B", "C", "D", "E", "F", "G", "H", "I", "J", "K", "L", "M", "N", "O", "P",
    "Q", "R", "S", "T", "U", "V", "W", "X", "Y", "Z", "a", "b", "c", "d", "e", "f",
    "g", "h", "i", "j", "k", "l", "m", "n", "o", "p", "q", "r", "s", "t", "u", "v",
    "w", "x", "y", "z", "0", "1", "2", "3", "4", "5", "6", "7", "8", "9", "_", ".",
    "-", "/", "~" }

\* is_suggestion_url_valid, on what urlparse makes of the url
is_suggestion_url_valid(answer) ==
    LET parsed_result == answer.suggestions_url
    IN IF parsed_result.scheme # "" /\ parsed_result.netloc # "" THEN TRUE
       ELSE /\ Len(parsed_result.path) > 0
            /\ \A n \in 1..Len(parsed_result.path) : parsed_result.path[n] \in UrlPathChars

\* validate_numeric_default: the records it adds
validate_numeric_default(answer) ==
    IF answer.mandatory = "true" /\ answer.default.has
    THEN <<add_error(answer, "Default is being used with a mandatory answer", "", Zero)>>
    ELSE <<>>

\* self.answer.get(bound, {}).get("value", 0), where it is a number
LiteralOr0(bound) ==
    IF bound.kind = "absent" THEN [is_int |-> TRUE, num |-> Zero]
    ELSE IF bound.kind = "number" THEN [is_int |-> bound.num.int, num |-> bound.num]
    ELSE [is_int |-> FALSE, num |-> Zero]

\* validate_numeric_answer_value: the records it adds
validate_numeric_answer_value(answer) ==
    LET min_value == LiteralOr0(answer.minimum)
        max_value == LiteralOr0(answer.maximum)
    IN (IF min_value.is_int /\ NumLess(min_value.num, MIN_NUMBER)
        THEN <<add_error(answer, "Minimum value is less than system limit", "", min_value.num)>>
        ELSE <<>>)
       \o (IF max_value.is_int /\ NumLess(MAX_NUMBER, max_value.num)
           THEN <<add_error(answer, "Maximum value is greater than system limit", "",
                            max_value.num)>>
           ELSE <<>>)

\* self.answer.get("decimal_places", 0)
decimal_places(answer) == IF answer.decimal_places.has THEN answer.decimal_places.n ELSE 0

\* validate_numeric_answer_decimals: the records it adds
validate_numeric_answer_decimals(answer) ==
    IF decimal_places(answer) > MAX_DECIMAL_PLACES
    THEN <<add_error(answer, "Number of decimal places is greater than system limit", "",
                     NumInt(decimal_places(answer)))>>
    ELSE <<>>

\* validate(): self.errors when it ends, and the exception that ended it.
\* What the three checks that return a list return is not kept.
validate(v) ==
    LET answer == v.answer
        duplicates == _validate_duplicate_options(answer)
        after_actions == v.errors \o _validate_answer_actions(v)
        labels == validate_labels_and_values_match(answer)
        routing == _validate_routing_on_answer_options(v)
        added ==
            (IF ~are_decimal_places_valid(answer)
             THEN <<add_error(answer, "'decimal_places' must be defined and set to 2", "", Zero)>>
             ELSE <<>>)
            \o (IF ~is_offset_date_valid(answer)
                THEN <<add_error(answer,
                         "The minimum offset date is greater than the maximum offset date",
                         "", Zero)>>
                ELSE <<>>)
            \o (IF /\ answer.type = "TextField"
                   /\ answer.suggestions_url.has
                   /\ ~is_suggestion_url_valid(answer)
                THEN <<add_error(answer, "Suggestions url is invalid", "", Zero)>>
                ELSE <<>>)
            \o (IF answer.type \in {"Number", "Currency", "Percentage"}
                THEN validate_numeric_default(answer)
                       \o validate_numeric_answer_value(answer)
                       \o validate_numeric_answer_decimals(answer)
                ELSE <<>>)
    IN IF ~routing.ok THEN [errors |-> after_actions, exc |-> routing.exc]
       ELSE [errors |-> after_actions \o added, exc |-> "none"]

-----------------------------------------------------------------------------
(* The answers and blocks a validator is built over                        *)

\* The most options of an answer, rules of a block, entries of a when clause.
MaxOptions == 2
MaxRules == 2
MaxWhens == 1

\* Every list over a set, up to a length.
ListsUpTo(set, n) == UNION {[1..k -> set] : k \in 0..n}

AbsentBound ==
    [kind |-> "absent", num |-> Zero, source |-> "", identifier |-> "",
     date |-> [year |-> 0, month |-> 1], offset |-> [years |-> 0, months |-> 0]]

\* {"value": n}
NumberBound(n) == [AbsentBound EXCEPT !.kind = "number", !.num = n]

\* {"value": {"source": source, "identifier": identifier}}
ReferenceBound(source, identifier) ==
    [AbsentBound EXCEPT !.kind = "reference", !.source = source, !.identifier = identifier]

\* {"value": "yyyy-mm", "offset_by": {"years": y, "months": m}}
DateBound(date, offset) == [AbsentBound EXCEPT !.kind = "date", !.date = date, !.offset = offset]

NoUrl == [has |-> FALSE, scheme |-> "", netloc |-> "", path |-> <<>>]
Url(scheme, netloc, path) == [has |-> TRUE, scheme |-> scheme, netloc |-> netloc, path |-> path]

NoAction == [has_params |-> FALSE, list_name |-> "", block_id |-> ""]
Action(list_name, block_id) ==
    [has_params |-> TRUE, list_name |-> list_name, block_id |-> block_id]

PlainLabel(text) == [kind |-> "str", text |-> text, plural |-> FALSE]
PlaceholderLabel(text) == [kind |-> "dict", text |-> text, plural |-> FALSE]
PluralLabel == [kind |-> "dict", text |-> "", plural |-> TRUE]

Option(label, value, action) == [label |-> label, value |-> value, action |-> action]

NoOptionList == [has |-> FALSE, list |-> <<>>]
OptionList(list) == [has |-> TRUE, list |-> list]

\* An answer with an id, a type and "mandatory": true, and nothing else.
PlainAnswer(type) ==
    [id |-> "q1", type |-> type, mandatory |-> "true", options |-> NoOptionList,
     calculated |-> FALSE, decimal_places |-> [has |-> FALSE, n |-> 0],
     default |-> [has |-> FALSE, num |-> Zero], exclusive |-> FALSE,
     minimum |-> AbsentBound, maximum |-> AbsentBound, suggestions_url |-> NoUrl]

NoBlock == [has |-> FALSE, has_routing_rules |-> FALSE, routing_rules |-> <<>>]
BlockWithoutRules == [has |-> TRUE, has_routing_rules |-> FALSE, routing_rules |-> <<>>]
BlockWithRules(rules) == [has |-> TRUE, has_routing_rules |-> TRUE, routing_rules |-> rules]

\* The entries of a when clause: on this answer, on another, without an id,
\* without a value.
WhenEntries ==
    {[has_id |-> TRUE, id |-> "q1", has_value |-> TRUE, value |-> "a"],
     [has_id |-> TRUE, id |-> "q1", has_value |-> TRUE, value |-> "b"],
     [has_id |-> TRUE, id |-> "q2", has_value |-> TRUE, value |-> "a"],
     [has_id |-> TRUE, id |-> "q1", has_value |-> FALSE, value |-> ""],
     [has_id |-> FALSE, id |-> "", has_value |-> TRUE, value |-> "a"]}

\* The rules: without a goto, with a goto that has no when, with a goto and a when.
Rules ==
    {[goto |-> FALSE, when |-> [has |-> FALSE, clause |-> <<>>]],
     [goto |-> TRUE, when |-> [has |-> FALSE, clause |-> <<>>]]}
      \cup {[goto |-> TRUE, when |-> [has |-> TRUE, clause |-> c]] :
              c \in ListsUpTo(WhenEntries, MaxWhens)}

RoutedOptions ==
    {Option(l, v, NoAction) :
        l \in {PlainLabel("a"), PlainLabel("b"), PlaceholderLabel("a")}, v \in {"a", "b"}}

\* Answers with options, in blocks with and without routing rules.
OptionInputs ==
    {[answer |-> [PlainAnswer("Radio") EXCEPT !.options = OptionList(list), !.mandatory = m],
      block |-> b] :
        list \in ListsUpTo(RoutedOptions, MaxOptions),
        m \in {"true", "false", "absent"},
        b \in {NoBlock, BlockWithoutRules}
                \cup {BlockWithRules(rules) : rules \in ListsUpTo(Rules, MaxRules)}}

\* Answers whose options carry an action, or a label with plural forms.
ActionInputs ==
    {[answer |-> [PlainAnswer("Checkbox") EXCEPT
                    !.options = OptionList(<<Option(l, "a", a), Option(PlainLabel("b"), "b", a2)>>)],
      block |-> NoBlock] :
        l \in {PlainLabel("a"), PluralLabel, PlaceholderLabel("c")},
        a \in {NoAction, Action("people", ""), Action("ghosts", ""), Action("", "nowhere"),
               Action("ghosts", "nowhere")},
        a2 \in {NoAction, Action("", "b1"), Action("ghosts", "b1")}}

\* Numeric answers: literal bounds inside and outside the system limits.
NumericInputs ==
    {[answer |-> [PlainAnswer(type) EXCEPT !.mandatory = m, !.calculated = c,
                    !.decimal_places = dp, !.default = d, !.minimum = lo, !.maximum = hi],
      block |-> NoBlock] :
        type \in {"Number", "Currency"},
        m \in {"true", "false"},
        c \in BOOLEAN,
        dp \in {[has |-> FALSE, n |-> 0], [has |-> TRUE, n |-> 2],
                [has |-> TRUE, n |-> MAX_DECIMAL_PLACES + 1]},
        d \in {[has |-> FALSE, num |-> Zero], [has |-> TRUE, num |-> NumInt(1)]},
        lo \in {AbsentBound, NumberBound(Zero), NumberBound(NumPlus(MIN_NUMBER, -FracUnit)),
                NumberBound([NumPlus(MIN_NUMBER, -FracUnit) EXCEPT !.int = TRUE]),
                ReferenceBound("answers", "q0")},
        hi \in {AbsentBound, NumberBound(NumInt(5)),
                NumberBound([NumPlus(MAX_NUMBER, FracUnit) EXCEPT !.int = TRUE])}}

\* Date answers: literal dates with offsets, and a reference.
DateInputs ==
    {[answer |-> [PlainAnswer("Date") EXCEPT !.minimum = lo, !.maximum = hi],
      block |-> NoBlock] :
        lo \in {AbsentBound, ReferenceBound("metadata", "ref_p_start_date")}
                 \cup {DateBound([year |-> 2020, month |-> 1], [years |-> 0, months |-> m]) :
                         m \in {0, 1, 2}},
        hi \in {AbsentBound, DateBound([year |-> 2020, month |-> 2], [years |-> 0, months |-> 0]),
                DateBound([year |-> 2019, month |-> 12], [years |-> 1, months |-> -10])}}

\* Text fields, with and without a suggestions_url.
TextInputs ==
    {[answer |-> [PlainAnswer("TextField") EXCEPT !.suggestions_url = u], block |-> NoBlock] :
        u \in {NoUrl,
               Url("https", "example.org", <<"/", "a">>),
               Url("", "", <<"/", "a", "~", "b", ".", "j">>),
               Url("", "", <<"/", "a", " ", "b">>),
               Url("", "", <<>>),
               Url("https", "", <<"?">>)}}

ValidatorInputs == OptionInputs \cup ActionInputs \cup NumericInputs \cup DateInputs \cup TextInputs

\* AnswerValidator(schema_element, block, list_names, block_ids)
NewValidatorOver(in) ==
    [answer |-> in.answer, block |-> in.block, list_names |-> {"people"},
     block_ids |-> {"b1"}, errors |-> <<>>]

NotCalled == [fn |-> "none", result |-> Returned(<<>>)]

AnswerInit ==
    /\ \E in \in ValidatorInputs : validator = NewValidatorOver(in)
    /\ runs = 0
    /\ first_errors = Unset
    /\ ret = NotCalled
    /\ IdleIndex /\ IdleContext /\ IdleRange

\* The most runs of validate() on one validator object.
MaxRuns == 2

\* validator.validate()
Validate ==
    /\ runs < MaxRuns
    /\ LET done == validate(validator)
       IN /\ validator' = [validator EXCEPT !.errors = done.errors]
          /\ first_errors' = IF first_errors.set THEN first_errors ELSE Kept(done.errors)
          /\ ret' = [fn |-> "validate",
                     result |-> IF done.exc = "none" THEN Returned(<<>>) ELSE Raise(done.exc)]
    /\ runs' = runs + 1
    /\ UNCHANGED <<index_vars, context_vars, range_vars>>

\* A new validator over the same answer, block, list names and block ids.
NewValidator ==
    /\ runs > 0
    /\ validator' = [validator EXCEPT !.errors = <<>>]
    /\ runs' = 0
    /\ ret' = NotCalled
    /\ UNCHANGED <<first_errors, index_vars, context_vars, range_vars>>

\* validator._validate_duplicate_options()
CallDuplicateOptions ==
    /\ ret' = [fn |-> "_validate_duplicate_options",
               result |-> _validate_duplicate_options(validator.answer)]
    /\ UNCHANGED <<validator, runs, first_errors, index_vars, context_vars, range_vars>>

\* validator.validate_labels_and_values_match()
CallLabelsAndValuesMatch ==
    /\ ret' = [fn |-> "validate_labels_and_values_match",
               result |-> validate_labels_and_values_match(validator.answer)]
    /\ UNCHANGED <<validator, runs, first_errors, index_vars, context_vars, range_vars>>

\* validator._validate_routing_on_answer_options()
CallRoutingOnAnswerOptions ==
    /\ ret' = [fn |-> "_validate_routing_on_answer_options",
               result |-> _validate_routing_on_answer_options(validator)]
    /\ UNCHANGED <<validator, runs, first_errors, index_vars, context_vars, range_vars>>

AnswerNext ==
    \/ Validate
    \/ NewValidator
    \/ CallDuplicateOptions
    \/ CallLabelsAndValuesMatch
    \/ CallRoutingOnAnswerOptions

SpecAnswer == AnswerInit /\ [][AnswerNext]_vars

-----------------------------------------------------------------------------
(* Claims about one validator                                              *)

\* C2: after any run of validate(), on the object that ran before or on a new
\* one over the same answer, block, list names and block ids, the errors are
\* the errors after the first run.
C2_SecondRunSameErrors ==
    (runs >= 1 /\ first_errors.set) => validator.errors = first_errors.val

\* The first run on a new validator does repeat the first run.
FirstRunOnNewValidatorRepeats ==
    (runs = 1 /\ first_errors.set) => validator.errors = first_errors.val

\* Whether a list holds a record.
Holds(list, e) == \E n \in 1..Len(list) : list[n] = e

\* C3: when validate() has returned, self.errors holds every finding of the
\* duplicate-options check, the label/value check and the routing check.
C3_EveryFindingInErrors ==
    (ret.fn = "validate" /\ ret.result.ok) =>
        /\ \A e \in Range(_validate_duplicate_options(validator.answer).value) :
              Holds(validator.errors, e)
        /\ \A e \in Range(validate_labels_and_values_match(validator.answer).value) :
              Holds(validator.errors, e)
        /\ \A e \in Range(_validate_routing_on_answer_options(validator).value) :
              Holds(validator.errors, e)

\* What validate() does keep: the records of the checks that call add_error.
AddedErrorsKept ==
    (ret.fn = "validate" /\ runs = 1) =>
        \A e \in Range(_validate_answer_actions(validator)) : Holds(validator.errors, e)

Unrouted == "Routing rule not defined for all answers or default not defined"

\* Whether the routing check returned a list with the unrouted-options error.
UnroutedReported == \E n \in 1..Len(ret.result.value) : ret.result.value[n].message = Unrouted

\* No rule lacks a when clause.
NoDefaultRule ==
    \A n \in 1..Len(validator.block.routing_rules) :
        validator.block.routing_rules[n].goto /\ validator.block.routing_rules[n].when.has

\* The values of the when entries, in all rules, whose id is this answer's id.
WhenValues ==
    LET rules == validator.block.routing_rules
        OfRule(rule) ==
            LET on == {n \in 1..Len(rule.when.clause) :
                          /\ rule.when.clause[n].has_id
                          /\ rule.when.clause[n].has_value
                          /\ rule.when.clause[n].id = validator.answer.id}
            IN [n \in 1..Len(SelectIdx(rule.when.clause, on)) |->
                   SelectIdx(rule.when.clause, on)[n].value]
    IN Flatten([n \in 1..Len(rules) |-> OfRule(rules[n])])

OptionValues == [n \in 1..Len(options(validator.answer)) |-> options(validator.answer)[n].value]

\* The routing check has run on a block with routing rules and an answer
\* with options, and returned.
RoutingChecked ==
    /\ ret.fn = "_validate_routing_on_answer_options"
    /\ RoutingApplies(validator)
    /\ ret.result.ok

RepeatedValues ==
    LET opts == options(validator.answer)
    IN {n \in 1..Len(opts) : \E m \in 1..(n - 1) : opts[m].value = opts[n].value}

\* The options whose plain-string label is the label of an earlier option.
RepeatedLabels ==
    LET opts == options(validator.answer)
    IN {n \in 1..Len(opts) :
           /\ opts[n].label.kind = "str"
           /\ \E m \in 1..(n - 1) :
                 opts[m].label.kind = "str" /\ opts[m].label.text = opts[n].label.text}

\* C10: the duplicate-options check returns one duplicate-value message for
\* each option that repeats an earlier option's value, whatever the labels
\* are, and one duplicate-label message for each option that repeats an
\* earlier plain-string label.
C10_EveryRepeatFlagged ==
    ret.fn = "_validate_duplicate_options" =>
        LET found == ret.result.value
            Of(message) == {n \in 1..Len(found) : found[n].message = message}
        IN /\ Cardinality(Of("Duplicate value found")) = Cardinality(RepeatedValues)
           /\ Cardinality(Of("Duplicate label found")) = Cardinality(RepeatedLabels)
           /\ \A n \in RepeatedValues :
                 \E k \in Of("Duplicate value found") :
                     found[k].text = options(validator.answer)[n].value

\* With plain-string labels only, every repeat is flagged.
RepeatsFlaggedUnderPlainLabels ==
    (/\ ret.fn = "_validate_duplicate_options"
     /\ \A n \in 1..Len(options(validator.answer)) :
           options(validator.answer)[n].label.kind = "str") =>
        LET found == ret.result.value
            Of(message) == {n \in 1..Len(found) : found[n].message = message}
        IN /\ Cardinality(Of("Duplicate value found")) = Cardinality(RepeatedValues)
           /\ Cardinality(Of("Duplicate label found")) = Cardinality(RepeatedLabels)

-----------------------------------------------------------------------------
(* AnswerValidator: the table of numeric ranges and the checks that read it *)

\* A number, or None.
NoNumber == [none |-> TRUE, num |-> Zero]
Number(num) == [none |-> FALSE, num |-> num]

\* An answer id, or None.
NoId == [has |-> FALSE, id |-> ""]
Id(id) == [has |-> TRUE, id |-> id]

RECURSIVE Pow10(_)
Pow10(n) == IF n = 0 THEN 1 ELSE 10 * Pow10(n - 1)

\* 1 / 10 ** decimal_places, in units of 1 / FracUnit
Unit(places) == FracUnit \div Pow10(places)

\* The referred answer's own bound in place of the system default, where the
\* referred answer has an entry and no default.
ReferredAnswersBound(defined_value, system_default, ranges) ==
    IF defined_value.kind = "number" THEN Number(defined_value.num)
    ELSE IF /\ defined_value.kind = "reference"
            /\ defined_value.source = "answers"
         THEN IF defined_value.identifier \notin DOMAIN ranges THEN NoNumber
              ELSE IF ranges[defined_value.identifier].default.has
                   THEN Number(system_default)
                   ELSE IF system_default = Zero
                        THEN ranges[defined_value.identifier].min
                        ELSE ranges[defined_value.identifier].max
         ELSE Number(system_default)

\* _get_numeric_value(defined_value, system_default, answer_ranges); a bound
\* that is absent gives the {} that get("value", {}) falls back on
_get_numeric_value(defined_value, system_default, ranges) ==
    IF defined_value.kind = "number" THEN Number(defined_value.num)
    ELSE IF /\ defined_value.kind = "reference"
            /\ defined_value.source = "answers"
            /\ defined_value.identifier \notin DOMAIN ranges
         THEN NoNumber
         ELSE Number(system_default)

\* _get_answer_minimum: None + float raises TypeError
_get_answer_minimum(defined_minimum, places, exclusive, ranges) ==
    LET minimum_value == _get_numeric_value(defined_minimum, Zero, ranges)
    IN IF exclusive
       THEN IF minimum_value.none THEN Raise("TypeError")
            ELSE Returned(Number(NumPlus(minimum_value.num, Unit(places))))
       ELSE Returned(minimum_value)

\* _get_answer_maximum: None - float raises TypeError
_get_answer_maximum(defined_maximum, places, exclusive, ranges) ==
    LET maximum_value == _get_numeric_value(defined_maximum, MAX_NUMBER, ranges)
    IN IF exclusive
       THEN IF maximum_value.none THEN Raise("TypeError")
            ELSE Returned(Number(NumPlus(maximum_value.num, -Unit(places))))
       ELSE Returned(maximum_value)

\* min_value.get("identifier") if isinstance(min_value, dict) else None
Referred(bound) == IF bound.kind = "reference" THEN Id(bound.identifier) ELSE NoId

\* get_numeric_range_values(answer_ranges): the entry, or the exception
get_numeric_range_values(answer, ranges) ==
    LET min == _get_answer_minimum(answer.minimum, decimal_places(answer), answer.exclusive,
                                   ranges)
        max == _get_answer_maximum(answer.maximum, decimal_places(answer), answer.exclusive,
                                   ranges)
    IN IF ~min.ok THEN min
       ELSE IF ~max.ok THEN max
       ELSE Returned([min |-> min.value,
                      max |-> max.value,
                      decimal_places |-> decimal_places(answer),
                      min_referred |-> Referred(answer.minimum),
                      max_referred |-> Referred(answer.maximum),
                      default |-> answer.default])

CanNotSetMinimum == "The referenced answer can not be used to set the minimum of answer"
CanNotSetMaximum == "The referenced answer can not be used to set the maximum of answer"
InvalidRange == "Invalid range of min and max is possible for answer"
GreaterDecimals == "The referenced answer has a greater number of decimal places than answer"

\* Both bounds reported, the maximum also after the minimum.
ReferredErrorsOfBothBounds(answer, ranges) ==
    (IF ranges[answer.id].min.none
     THEN <<add_error(answer, CanNotSetMinimum, answer.minimum.identifier, Zero)>>
     ELSE <<>>)
    \o (IF ranges[answer.id].max.none
        THEN <<add_error(answer, CanNotSetMaximum, answer.maximum.identifier, Zero)>>
        ELSE <<>>)

\* _validate_referred_numeric_answer: the records it adds; it returns True
\* when it adds one
_validate_referred_numeric_answer(answer, ranges) ==
    IF ranges[answer.id].min.none
    THEN <<add_error(answer, CanNotSetMinimum, answer.minimum.identifier, Zero)>>
    ELSE IF ranges[answer.id].max.none
    THEN <<add_error(answer, CanNotSetMaximum, answer.maximum.identifier, Zero)>>
    ELSE <<>>

\* _validate_numeric_range: the records it adds
_validate_numeric_range(answer, ranges) ==
    LET max_value == ranges[answer.id].max
        min_value == ranges[answer.id].min
    IN IF NumLess(max_value.num, min_value.num)
       THEN <<add_error(answer, InvalidRange, "", Zero)>>
       ELSE <<>>

\* One half of _validate_referred_numeric_answer_decimals: the records added
\* for one referred id, or the KeyError of answer_ranges[referred]
ReferredDecimals(answer, ranges, referred) ==
    IF ~referred.has THEN Returned(<<>>)
    ELSE IF referred.id \notin DOMAIN ranges THEN Raise("KeyError")
    ELSE IF ranges[answer.id].decimal_places < ranges[referred.id].decimal_places
         THEN Returned(<<add_error(answer, GreaterDecimals, referred.id, Zero)>>)
         ELSE Returned(<<>>)

\* _validate_referred_numeric_answer_decimals: the records it adds and the
\* exception that ends it
_validate_referred_numeric_answer_decimals(answer, ranges) ==
    LET answer_values == ranges[answer.id]
        of_min == ReferredDecimals(answer, ranges, answer_values.min_referred)
        of_max == ReferredDecimals(answer, ranges, answer_values.max_referred)
    IN IF ~of_min.ok THEN [errors |-> <<>>, exc |-> of_min.exc]
       ELSE IF ~of_max.ok THEN [errors |-> of_min.value, exc |-> of_max.exc]
       ELSE [errors |-> of_min.value \o of_max.value, exc |-> "none"]

\* validate_numeric_answer_types(answer_ranges) on a new validator: self.errors
\* when it ends, and the exception that ended it
validate_numeric_answer_types(answer, ranges) ==
    LET referred_errors == _validate_referred_numeric_answer(answer, ranges)
        decimals == _validate_referred_numeric_answer_decimals(answer, ranges)
    IN IF Len(referred_errors) > 0 THEN [errors |-> referred_errors, exc |-> "none"]
       ELSE [errors |-> _validate_numeric_range(answer, ranges) \o decimals.errors,
             exc |-> decimals.exc]

-----------------------------------------------------------------------------
(* The range table, built in one pass over the numeric answers             *)

\* The most numeric answers of a document.
MaxAnswers == 2

\* The ids of the numeric answers, in document order: the n-th answer of a
\* document has the n-th id.
AnswerIds == <<"a", "b", "c">>

\* The bounds of a numeric answer: none, a number, a reference to a numeric
\* answer, to an id that is no numeric answer, and to metadata.
MinimumBounds ==
    {AbsentBound, NumberBound(NumInt(5)), ReferenceBound("answers", "a"),
     ReferenceBound("answers", "b"), ReferenceBound("answers", "zz"),
     ReferenceBound("metadata", "zz")}

MaximumBounds ==
    {AbsentBound, NumberBound(NumInt(3)), NumberBound(NumInt(5)),
     ReferenceBound("answers", "a"), ReferenceBound("answers", "b"),
     ReferenceBound("metadata", "zz")}

NumericAnswers ==
    {[PlainAnswer("Number") EXCEPT !.mandatory = "false", !.minimum = lo, !.maximum = hi,
        !.exclusive = x, !.decimal_places = dp, !.default = d] :
        lo \in MinimumBounds,
        hi \in MaximumBounds,
        x \in BOOLEAN,
        dp \in {[has |-> FALSE, n |-> 0], [has |-> TRUE, n |-> 2]},
        d \in {[has |-> FALSE, num |-> Zero], [has |-> TRUE, num |-> NumInt(1)]}}

NoCall == [called |-> FALSE, at |-> 0, ranges |-> <<>>, exc |-> "none"]

RangeInit ==
    /\ \E k \in 1..MaxAnswers :
          \E list \in [1..k -> NumericAnswers] :
              numeric_answers = [n \in 1..k |-> [list[n] EXCEPT !.id = AnswerIds[n]]]
    /\ answer_ranges = <<>>
    /\ built = 0
    /\ num_errors = <<>>
    /\ num_log = NoCall
    /\ raised = "none"
    /\ IdleIndex /\ IdleContext /\ IdleAnswer

\* The table with one more entry.
WithEntry(ranges, id, entry) ==
    [x \in DOMAIN ranges \cup {id} |-> IF x = id THEN entry ELSE ranges[x]]

\* The next numeric answer of the document:
\* answer_ranges[answer["id"]] = validator.get_numeric_range_values(answer_ranges)
BuildEntry ==
    /\ raised = "none"
    /\ built < Len(numeric_answers)
    /\ LET answer == numeric_answers[built + 1]
           made == get_numeric_range_values(answer, answer_ranges)
       IN IF made.ok
          THEN /\ answer_ranges' = WithEntry(answer_ranges, answer.id, made.value)
               /\ built' = built + 1
               /\ raised' = raised
          ELSE /\ raised' = made.exc
               /\ UNCHANGED <<answer_ranges, built>>
    /\ UNCHANGED <<numeric_answers, num_errors, num_log, index_vars, context_vars, answer_vars>>

\* validate_numeric_answer_types(answer_ranges) on a new validator of an
\* answer that has its entry, as soon as it has it or when the table is whole.
ValidateNumericAnswerTypes(at) ==
    /\ raised = "none"
    /\ at \in 1..built
    /\ LET done == validate_numeric_answer_types(numeric_answers[at], answer_ranges)
       IN /\ num_errors' = done.errors
          /\ raised' = done.exc
          /\ num_log' = [called |-> TRUE, at |-> at, ranges |-> answer_ranges,
                         exc |-> done.exc]
    /\ UNCHANGED <<numeric_answers, answer_ranges, built, index_vars, context_vars, answer_vars>>

RangeNext ==
    \/ BuildEntry
    \/ \E at \in 1..MaxAnswers : ValidateNumericAnswerTypes(at)

SpecRange == RangeInit /\ [][RangeNext]_vars

-----------------------------------------------------------------------------
(* Claims about the range table                                            *)

\* Whether a bound refers to an answer that has no entry when the n-th
\* numeric answer gets its own.
Unresolved(bound, n) ==
    /\ bound.kind = "reference"
    /\ bound.source = "answers"
    /\ bound.identifier \notin {numeric_answers[m].id : m \in 1..(n - 1)}

\* Each entry built so far has the null sentinel as a bound exactly where the
\* answer's bound refers to an answer without an entry at that point.
SentinelIffUnresolved ==
    \A n \in 1..built :
        LET answer == numeric_answers[n]
            entry == answer_ranges[answer.id]
        IN /\ entry.min.none <=> Unresolved(answer.minimum, n)
           /\ entry.max.none <=> Unresolved(answer.maximum, n)

\* C4: building the table in one pass never fails, whatever the exclusive flag
\* and the decimal places of an answer, and each entry's min (max) is the null
\* sentinel exactly when the minimum (maximum) refers to an answer that has no
\* entry at that point.
C4_EveryAnswerGetsItsEntry ==
    /\ raised # "TypeError"
    /\ SentinelIffUnresolved

\* The last call of validate_numeric_answer_types: its answer and the entry
\* it read.
Checked == numeric_answers[num_log.at]
CheckedEntry == num_log.ranges[Checked.id]

Messages == [n \in 1..Len(num_errors) |-> num_errors[n].message]

\* C5: when a resolved bound of the entry is the null sentinel, the check adds
\* one error and no more, which names the reference that dangles (the
\* minimum's when both do), and ends there; when neither is, it adds no such
\* error, the invalid-range error is added exactly when max < min, and the
\* check of the decimal places runs: it adds its errors or ends in the
\* KeyError of a referred id that has no entry.
C5_SentinelShortCircuits ==
    num_log.called =>
        IF CheckedEntry.min.none \/ CheckedEntry.max.none
        THEN /\ Len(num_errors) = 1
             /\ num_log.exc = "none"
             /\ IF CheckedEntry.min.none
                THEN /\ num_errors[1].message = CanNotSetMinimum
                     /\ num_errors[1].text = Checked.minimum.identifier
                ELSE /\ num_errors[1].message = CanNotSetMaximum
                     /\ num_errors[1].text = Checked.maximum.identifier
        ELSE /\ CanNotSetMinimum \notin Range(Messages)
             /\ CanNotSetMaximum \notin Range(Messages)
             /\ InvalidRange \in Range(Messages) <=>
                   NumLess(CheckedEntry.max.num, CheckedEntry.min.num)
             /\ \/ num_log.exc = "KeyError"
                \/ /\ num_log.exc = "none"
                   /\ \A referred \in {CheckedEntry.min_referred, CheckedEntry.max_referred} :
                         (/\ referred.has
                          /\ CheckedEntry.decimal_places
                               < num_log.ranges[referred.id].decimal_places)
                           => \E n \in 1..Len(num_errors) :
                                 /\ num_errors[n].message = GreaterDecimals
                                 /\ num_errors[n].text = referred.id

\* The check has run on an answer both of whose bounds dangle, and added the
\* one error that names the minimum's reference.
C5_BothBoundsDangle ==
    /\ num_log.called
    /\ CheckedEntry.min.none
    /\ CheckedEntry.max.none
    /\ Len(num_errors) = 1
    /\ num_errors[1].text = Checked.minimum.identifier


\* The last check ran on an answer both of whose bounds resolved.
BothBoundsResolved ==
    /\ num_log.called
    /\ ~CheckedEntry.min.none
    /\ ~CheckedEntry.max.none

\* Whether the check added the precision-mismatch error that names an id.
GreaterDecimalsReported(id) ==
    \E n \in 1..Len(num_errors) :
        num_errors[n].message = GreaterDecimals /\ num_errors[n].text = id

\* C11: for an answer both of whose bounds resolve, the check ends without
\* failing, also when a bound carries an identifier that has no entry in the
\* table; it adds the invalid-range error exactly when max < min, and for the
\* minimum's reference and for the maximum's, the precision-mismatch error
\* naming the referred answer exactly when the answer has fewer decimal places
\* than the referred answer.
C11_RangeAndPrecisionComplete ==
    BothBoundsResolved =>
        /\ num_log.exc = "none"
        /\ InvalidRange \in Range(Messages) <=>
              NumLess(CheckedEntry.max.num, CheckedEntry.min.num)
        /\ \A referred \in {CheckedEntry.min_referred, CheckedEntry.max_referred} :
              referred.has =>
                  (GreaterDecimalsReported(referred.id) <=>
                      /\ referred.id \in DOMAIN num_log.ranges
                      /\ CheckedEntry.decimal_places
                           < num_log.ranges[referred.id].decimal_places)

\* Where every identifier a bound carries has an entry in the table, the check
\* ends and adds those errors and no others.
RangeAndPrecisionWhereReferredHaveEntries ==
    (/\ BothBoundsResolved
     /\ \A referred \in {CheckedEntry.min_referred, CheckedEntry.max_referred} :
           referred.has => referred.id \in DOMAIN num_log.ranges) =>
        /\ num_log.exc = "none"
        /\ InvalidRange \in Range(Messages) <=>
              NumLess(CheckedEntry.max.num, CheckedEntry.min.num)
        /\ \A referred \in {CheckedEntry.min_referred, CheckedEntry.max_referred} :
              referred.has =>
                  (GreaterDecimalsReported(referred.id) <=>
                      CheckedEntry.decimal_places
                        < num_log.ranges[referred.id].decimal_places)


\* Whether the n-th answer's bound is a reference to an answer that has an
\* entry when the n-th answer gets its own.
RefersToEntry(bound, n) ==
    /\ bound.kind = "reference"
    /\ bound.identifier \in {numeric_answers[m].id : m \in 1..(n - 1)}

\* A bound as the answer alone gives it: its literal, else the system default.
OwnBound(bound, system_default) ==
    IF bound.kind = "number" THEN bound.num ELSE system_default

\* value + units / FracUnit where the answer is exclusive, else the value as
\* it is.
Adjusted(answer, value, units) ==
    IF answer.exclusive THEN NumPlus(value, units) ELSE value

\* C12: a bound that refers to an answer with an entry in the table resolves
\* to the system default, 0 for a minimum and MAX_NUMBER for a maximum,
\* moved by one unit where the answer is exclusive, whatever the referred
\* answer's min, max and default are; and the invalid-range error depends on
\* the answer's own literal bounds, the defaults and its exclusive flag only.
C12_ReferredRangeNeverFlows ==
    /\ \A n \in 1..built :
          LET answer == numeric_answers[n]
              entry == answer_ranges[answer.id]
              unit == Unit(decimal_places(answer))
          IN /\ RefersToEntry(answer.minimum, n) =>
                   entry.min = Number(Adjusted(answer, Zero, unit))
             /\ RefersToEntry(answer.maximum, n) =>
                   entry.max = Number(Adjusted(answer, MAX_NUMBER, -unit))
    /\ BothBoundsResolved =>
          (InvalidRange \in Range(Messages) <=>
              NumLess(Adjusted(Checked, OwnBound(Checked.maximum, MAX_NUMBER),
                               -Unit(decimal_places(Checked))),
                      Adjusted(Checked, OwnBound(Checked.minimum, Zero),
                               Unit(decimal_places(Checked)))))

\* The second answer's minimum refers to the first, whose entry has the
\* minimum 5 and no default, and resolves to 0; its own maximum of 3 passes
\* the range check, which 5 as the minimum would fail.
C12_ReferredMinimumNotTaken ==
    /\ built = 2
    /\ num_log.called /\ num_log.at = 2 /\ num_log.exc = "none"
    /\ numeric_answers[2].minimum = ReferenceBound("answers", "a")
    /\ numeric_answers[2].maximum = NumberBound(NumInt(3))
    /\ ~numeric_answers[2].exclusive
    /\ ~answer_ranges["a"].default.has
    /\ answer_ranges["a"].min = Number(NumInt(5))
    /\ answer_ranges["b"].min = Number(Zero)
    /\ InvalidRange \notin Range(Messages)

====
